---- MODULE Spec2Model ----
(***************************************************************************)
(* nyse-trade-halts: the fetch and watch commands, the CSV feed parser and *)
(* the watch loop's diff against the stored halts (prevHalts).             *)
(* Modelled from the current revision of main.go (src/unnamed/part_001,    *)
(* lines 217-447).                                                         *)
(***************************************************************************)
EXTENDS Integers, Sequences, FiniteSets, TLC

VARIABLES
    cmd,          \* the subcommand kong dispatched: "fetch" or "watch"
    pc,           \* position of the running command
    exitCode,     \* process exit code once pc = "exited", -1 while running
    prevHalts,    \* WatchCmd.Run: map[string]TradeHalt
    currentHalts, \* WatchCmd.Run: the slice fetchTradeHalts returned
    lastModified, \* WatchCmd.Run: *time.Time returned by fetchTradeHalts (0 = nil)
    i,            \* index of the range loop over currentHalts
    haltsUpdated, \* WatchCmd.Run: the alert flag
    tickPending,  \* number of ticks held in the channel ticker.C
    bells,        \* bell characters printed since the cycle's fetch began
    table,        \* <<>> or <<rows>>: the table printed since the cycle's fetch began
    prevStart,    \* history: prevHalts when the cycle's fetch began
    lastResp,     \* history: class of the response of the last fetch
    started,      \* history: some watch cycle got past its fetch
    repeatFetch,  \* history: this cycle's halts equal the previous cycle's
    fired,        \* history: timer firings since the cycle's fetch returned
    reappeared,   \* history: stored symbols this fetch has and the last had not
    parseIn,      \* ParseSpec: the records handed to parseTradeHalts
    parseOut      \* ParseSpec: what parseTradeHalts did with them

vars == <<cmd, pc, exitCode, prevHalts, currentHalts, lastModified, i,
          haltsUpdated, tickPending, bells, table, prevStart, lastResp,
          started, repeatFetch, fired, reappeared, parseIn, parseOut>>

(***************************************************************************)
(* Bounds                                                                  *)
(***************************************************************************)
MaxRows == 2      \* data rows per CSV body
MaxFired == 2     \* timer firings counted per cycle

(***************************************************************************)
(* The feed: field values that occur in the modelled CSV bodies            *)
(***************************************************************************)
Symbols == {"AAPL", "TSLA"}

HD == "2024-01-02"
HT == "09:30:00"
RD == "2024-01-02"
RT == "10:00:00"

\* the instants the two parsable date/time pairs denote; 0 is time.Time{}
ZeroTime == 0
HaltInstant == 1
ResumeInstant == 2
ModifiedInstant == 3

LMValid == "Tue, 02 Jan 2024 15:00:00 GMT"

Row(sym, name, reason, hd, ht, rd, rt) ==
    <<hd, ht, sym, name, "NYSE", reason, rd, rt>>

\* the rows the feed serves in the watch and fetch runs; the fourth differs
\* from the first in every field but the symbol and the resume columns
FeedRows ==
    {Row("AAPL", "Apple Inc.", "LULD", HD, HT, "", ""),
     Row("AAPL", "Apple Inc.", "LULD", HD, HT, RD, RT),
     Row("TSLA", "Tesla", "LULD", HD, HT, "", ""),
     Row("TSLA", "Tesla", "LULD", HD, HT, RD, RT),
     <<HD, "9.30", "AAPL", "\"Apple\"", "NASDAQ", "News", "", "">>}

\* further rows handed to the parser on its own
OddRows ==
    {Row("AAPL", "'Apple'", "LULD", "", "", "", ""),
     Row("AAPL", "Apple Inc.", "LULD", "", HT, RD, "soon"),
     Row("TSLA", "Tesla", "LULD", HD, HT, RD, ""),
     Row("TSLA", "Tesla", "LULD", HD, HT, "", RT)}

Row7 == <<HD, HT, "AAPL", "Apple Inc.", "NYSE", "LULD", "">>
Row9 == <<HD, HT, "AAPL", "Apple Inc.", "NYSE", "LULD", "", "", "">>

Header8 == <<"Halt Date", "Halt Time", "Symbol", "Name", "Exchange",
             "Reason", "Resume Date", "NYSE Resume Time">>
Header7 == <<"Halt Date", "Halt Time", "Symbol", "Name", "Exchange",
             "Reason", "Resume Date">>
Header9 == <<"Halt Date", "Halt Time", "Symbol", "Name", "Exchange",
             "Reason", "Resume Date", "NYSE Resume Time", "Notes">>

SeqsUpTo(S, n) == UNION {[1..k -> S] : k \in 0..n}

\* CSV bodies: no row at all, or a header followed by up to MaxRows rows
Bodies ==
    {<<>>} \cup {<<h>> \o d : h \in {Header8, Header7},
                              d \in SeqsUpTo(FeedRows \cup {Row7}, MaxRows)}

ParseBodies ==
    {<<>>} \cup {<<h>> \o d :
                    h \in {Header8, Header7, Header9},
                    d \in SeqsUpTo(FeedRows \cup OddRows \cup {Row7, Row9},
                                   MaxRows)}

\* what http.Get can come back with
Responses ==
    {[kind |-> "connErr", status |-> 0, body |-> <<>>, lm |-> ""]}
    \cup {[kind |-> "resp", status |-> 500, body |-> <<>>, lm |-> LMValid]}
    \cup {[kind |-> "resp", status |-> 200, body |-> b, lm |-> l] :
            b \in Bodies, l \in {LMValid, "", "yesterday"}}

(***************************************************************************)
(* Library functions, by what they do on the values above                  *)
(***************************************************************************)
\* time.ParseInLocation("2006-01-02 15:04:05", date+" "+time, nyseLocation)
ParseInLocation(date, time) ==
    IF date = HD /\ time = HT THEN [t |-> HaltInstant, err |-> FALSE]
    ELSE IF date = RD /\ time = RT THEN [t |-> ResumeInstant, err |-> FALSE]
    ELSE [t |-> ZeroTime, err |-> TRUE]

\* time.Parse(time.RFC1123, header)
ParseRFC1123(s) ==
    IF s = LMValid THEN [t |-> ModifiedInstant, err |-> FALSE]
    ELSE [t |-> ZeroTime, err |-> TRUE]

\* strconv.Unquote
Unquote(s) ==
    IF s = "\"Apple\"" THEN [s |-> "Apple", err |-> FALSE]
    ELSE [s |-> "", err |-> TRUE]

tryUnquote(s) ==
    LET u == Unquote(s) IN IF u.err THEN s ELSE u.s

\* t.Local().Format("2006-01-02 15:04:05")
FormatLocal(t) ==
    IF t = HaltInstant THEN "2024-01-02 09:30:00"
    ELSE IF t = ResumeInstant THEN "2024-01-02 10:00:00"
    ELSE "0001-01-01 00:00:00"

\* csv.Reader.ReadAll with the default FieldsPerRecord = 0: every record must
\* have the field count of the first one
ReadAll(body) ==
    IF \E k \in 1..Len(body) : Len(body[k]) # Len(body[1])
    THEN [records |-> <<>>, err |-> TRUE]
    ELSE [records |-> body, err |-> FALSE]

(***************************************************************************)
(* parseTradeHalts                                                         *)
(***************************************************************************)
TradeHalt(record) ==
    LET h == IF record[1] # "" /\ record[2] # ""
             THEN ParseInLocation(record[1], record[2])
             ELSE [t |-> ZeroTime, err |-> FALSE]
        r == IF record[7] # "" /\ record[8] # ""
             THEN ParseInLocation(record[7], record[8])
             ELSE [t |-> ZeroTime, err |-> FALSE]
    IN [halt |-> [Symbol |-> record[3],
                  Name |-> tryUnquote(record[4]),
                  Exchange |-> record[5],
                  Reason |-> record[6],
                  HaltDateTime |-> h.t,
                  ResumeDateTime |-> r.t],
        logged |-> (IF h.err THEN 1 ELSE 0) + (IF r.err THEN 1 ELSE 0)]

\* a parser that drops a row of the wrong width and carries on
RECURSIVE ParseLoop_Skip(_, _, _, _)
ParseLoop_Skip(records, k, halts, logged) ==
    IF k > Len(records)
    THEN [kind |-> "ok", halts |-> halts, logged |-> logged]
    ELSE IF Len(records[k]) # 8
    THEN ParseLoop_Skip(records, k + 1, halts, logged)
    ELSE LET th == TradeHalt(records[k])
         IN ParseLoop_Skip(records, k + 1, Append(halts, th.halt),
                           logged + th.logged)

RECURSIVE ParseLoop(_, _, _, _)
ParseLoop(records, k, halts, logged) ==
    IF k > Len(records)
    THEN [kind |-> "ok", halts |-> halts, logged |-> logged]
    ELSE IF Len(records[k]) # 8
    THEN [kind |-> "panic", halts |-> <<>>, logged |-> logged]
    ELSE LET th == TradeHalt(records[k])
         IN ParseLoop(records, k + 1, Append(halts, th.halt),
                      logged + th.logged)

\* a parser that takes a feed without data rows for a broken feed
parseTradeHalts_EmptyIsError(body) ==
    LET r == ReadAll(body)
    IN IF r.err \/ Len(r.records) < 2
       THEN [kind |-> "err", halts |-> <<>>, logged |-> 0]
       ELSE ParseLoop(r.records, 2, <<>>, 0)

parseTradeHalts(body) ==
    LET r == ReadAll(body)
    IN IF r.err THEN [kind |-> "err", halts |-> <<>>, logged |-> 0]
       ELSE IF Len(r.records) < 2
       THEN [kind |-> "ok", halts |-> <<>>, logged |-> 0]
       ELSE ParseLoop(r.records, 2, <<>>, 0)

(***************************************************************************)
(* fetchTradeHalts                                                         *)
(***************************************************************************)
FetchFail(kind, cause) ==
    [kind |-> kind, halts |-> <<>>, lastModified |-> 0, cause |-> cause]

fetchTradeHalts(resp) ==
    IF resp.kind = "connErr" THEN FetchFail("err", "transport")
    ELSE IF resp.status # 200 THEN FetchFail("err", "status")
    ELSE LET p == parseTradeHalts(resp.body)
             m == ParseRFC1123(resp.lm)
         IN IF p.kind = "panic" THEN FetchFail("panic", "parse")
            ELSE IF p.kind = "err" THEN FetchFail("err", "parse")
            ELSE IF m.err THEN FetchFail("err", "lastModified")
            ELSE [kind |-> "ok", halts |-> p.halts,
                  lastModified |-> m.t, cause |-> "none"]

(***************************************************************************)
(* displayHaltsTable                                                       *)
(***************************************************************************)
\* a row that formats the zero time like any other
TableRow_NoZeroCheck(halt) ==
    <<halt.Symbol, halt.Name, halt.Exchange, halt.Reason,
      FormatLocal(halt.HaltDateTime), FormatLocal(halt.ResumeDateTime)>>

TableRow(halt) ==
    <<halt.Symbol, halt.Name, halt.Exchange, halt.Reason,
      IF halt.HaltDateTime # ZeroTime THEN FormatLocal(halt.HaltDateTime) ELSE "",

                        IF halt.ResumeDateTime # ZeroTime THEN FormatLocal(halt.ResumeDateTime) ELSE "">>

\* a table of the stored halts, one row per symbol
displayHaltsTable_Stored(halts) ==
    LET stored == {k \in 1..Len(halts) :
                        \A j \in 1..(k - 1) : halts[j].Symbol # halts[k].Symbol}
    IN [k \in 1..Cardinality(stored) |->
            TableRow(halts[CHOOSE n \in stored :
                        Cardinality({m \in stored : m <= n}) = k])]

displayHaltsTable(halts) == [k \in 1..Len(halts) |-> TableRow(halts[k])]

(***************************************************************************)
(* WatchCmd.Run: the diff of one fetched record against prevHalts          *)
(***************************************************************************)
NoHalts == [s \in {} |-> 0]

\* a map rebuilt from the record alone
Store_Fresh(prev, halt) == [s \in {halt.Symbol} |-> halt]

\* prevHalts[halt.Symbol] = halt
Store(prev, halt) ==
    [s \in DOMAIN prev \cup {halt.Symbol} |->
        IF s = halt.Symbol THEN halt ELSE prev[s]]

\* a comparison of the whole record
ResumeChanged_AnyField(prevHalt, halt) == prevHalt # halt

\* prevHalt.ResumeDateTime != halt.ResumeDateTime
ResumeChanged(prevHalt, halt) ==
    prevHalt.ResumeDateTime # halt.ResumeDateTime

\* a loop body that also stores a record whose resume time is the stored one
DiffRecord_Refresh(prev, updated, halt) ==
    IF halt.Symbol \in DOMAIN prev
    THEN IF prev[halt.Symbol].ResumeDateTime # halt.ResumeDateTime
         THEN [prevHalts |-> Store(prev, halt), haltsUpdated |-> TRUE]
         ELSE [prevHalts |-> Store(prev, halt), haltsUpdated |-> updated]
    ELSE [prevHalts |-> Store(prev, halt), haltsUpdated |-> TRUE]

\* a loop body that compares the resume times the wrong way round: a stored
\* symbol is replaced when they are equal
DiffRecord_Inverted(prev, updated, halt) ==
    IF halt.Symbol \in DOMAIN prev
    THEN IF prev[halt.Symbol].ResumeDateTime = halt.ResumeDateTime
         THEN [prevHalts |-> Store(prev, halt), haltsUpdated |-> TRUE]
         ELSE [prevHalts |-> prev, haltsUpdated |-> updated]
    ELSE [prevHalts |-> Store(prev, halt), haltsUpdated |-> TRUE]

\* a loop body that stores a new halt without raising the flag
DiffRecord_SilentNew(prev, updated, halt) ==
    IF halt.Symbol \in DOMAIN prev
    THEN IF prev[halt.Symbol].ResumeDateTime # halt.ResumeDateTime
         THEN [prevHalts |-> Store(prev, halt), haltsUpdated |-> TRUE]
         ELSE [prevHalts |-> prev, haltsUpdated |-> updated]
    ELSE [prevHalts |-> Store(prev, halt), haltsUpdated |-> updated]

\* a loop body that raises the flag on a changed resume time but keeps the
\* stored record
DiffRecord_KeepFirst(prev, updated, halt) ==
    IF halt.Symbol \in DOMAIN prev
    THEN IF prev[halt.Symbol].ResumeDateTime # halt.ResumeDateTime
         THEN [prevHalts |-> prev, haltsUpdated |-> TRUE]
         ELSE [prevHalts |-> prev, haltsUpdated |-> updated]
    ELSE [prevHalts |-> Store(prev, halt), haltsUpdated |-> TRUE]

\* the body of the range loop
DiffRecord(prev, updated, halt) ==
    IF halt.Symbol \in DOMAIN prev
    THEN IF ResumeChanged(prev[halt.Symbol], halt)
         THEN [prevHalts |-> Store(prev, halt), haltsUpdated |-> TRUE]
         ELSE [prevHalts |-> prev, haltsUpdated |-> updated]
    ELSE [prevHalts |-> Store(prev, halt), haltsUpdated |-> TRUE]

\* the capacity of the channel time.NewTicker makes
TickerCap == 1

\* a ticker whose channel holds one tick more
SendTick_Queued(n) == IF n < TickerCap + 1 THEN n + 1 ELSE n

\* the timer's non-blocking send on ticker.C: a tick that finds the channel
\* full is dropped
SendTick(n) == IF n < TickerCap THEN n + 1 ELSE n

\* if haltsUpdated { fmt.Print(bellSound) }
BellCount(updated) == IF updated THEN 1 ELSE 0

\* a flag declared outside the loop and never reset
FlagAtCycleStart_Carry(old) == old

\* haltsUpdated := false at the top of each cycle
FlagAtCycleStart(old) == FALSE

\* a loop that drops fetchTradeHalts' error and carries on
AfterFetch_Carry(kind) == "diff"

\* a loop that waits for the next tick after a failed fetch
AfterFetch_Retry(kind) == IF kind = "ok" THEN "diff" ELSE "tick"

\* where the watch loop goes with fetchTradeHalts' outcome: log.Fatal on an
\* error, the runtime's abort on a panic
AfterFetch(kind) == IF kind = "ok" THEN "diff" ELSE "exited"

\* os.Exit(1) of log.Fatal and of kong's FatalIfErrorf; 2 of an unrecovered panic
ExitCodeOf(kind) == IF kind = "panic" THEN 2 ELSE 1

(***************************************************************************)
(* History: the class of a response                                        *)
(***************************************************************************)
HasBadRow(body) == \E k \in 2..Len(body) : Len(body[k]) # 8

Classify(resp) ==
    [kind |-> IF resp.kind = "connErr" THEN "connErr"
              ELSE IF resp.status # 200 THEN "badStatus" ELSE "ok200",
     badRow |-> HasBadRow(resp.body),
     parsed |-> parseTradeHalts(resp.body).kind = "ok",
     short |-> Len(resp.body) < 2,
     lm |-> IF resp.lm = "" THEN "absent"
            ELSE IF resp.lm = LMValid THEN "valid" ELSE "unparsable"]

SymbolsOf(list) == {list[k].Symbol : k \in 1..Len(list)}

\* the stored symbols that the last fetch did not have and this one has
Reappearing(stored, lastHalts, halts) ==
    (DOMAIN stored \ SymbolsOf(lastHalts)) \cap SymbolsOf(halts)

NoResp == [kind |-> "none", badRow |-> FALSE, parsed |-> FALSE, short |-> FALSE,
           lm |-> "absent"]
NoParse == [kind |-> "none", halts |-> <<>>, logged |-> 0]

(***************************************************************************)
(* Initial state and actions                                               *)
(***************************************************************************)
InitCommon ==
    /\ exitCode = -1
    /\ prevHalts = NoHalts
    /\ currentHalts = <<>>
    /\ lastModified = 0
    /\ i = 0
    /\ haltsUpdated = FALSE
    /\ tickPending = 0
    /\ fired = 0
    /\ reappeared = {}
    /\ bells = 0
    /\ table = <<>>
    /\ prevStart = NoHalts
    /\ lastResp = NoResp
    /\ started = FALSE
    /\ repeatFetch = FALSE
    /\ parseOut = NoParse

Init ==
    /\ cmd \in {"fetch", "watch"}
    /\ pc = "fetch"
    /\ parseIn = <<>>
    /\ InitCommon

\* FetchCmd.Run, and main's ctx.FatalIfErrorf on its error
FetchRun ==
    /\ cmd = "fetch" /\ pc = "fetch"
    /\ \E resp \in Responses :
        LET f == fetchTradeHalts(resp)
        IN /\ lastResp' = Classify(resp)
           /\ pc' = "exited"
           /\ IF f.kind = "ok"
              THEN /\ currentHalts' = f.halts
                   /\ table' = <<displayHaltsTable(f.halts)>>
                   /\ exitCode' = 0
              ELSE /\ exitCode' = ExitCodeOf(f.kind)
                   /\ UNCHANGED <<currentHalts, table>>
    /\ UNCHANGED <<cmd, prevHalts, lastModified, i, haltsUpdated, tickPending,
                   bells, prevStart, started, repeatFetch, parseIn, parseOut,
                   fired, reappeared>>

\* WatchCmd.Run: the top of the for loop, up to haltsUpdated := false
WatchFetch ==
    /\ cmd = "watch" /\ pc = "fetch"
    /\ \E resp \in Responses :
        LET f == fetchTradeHalts(resp)
        IN /\ lastResp' = Classify(resp)
           /\ bells' = 0
           /\ table' = <<>>
           /\ prevStart' = prevHalts
           /\ pc' = AfterFetch(f.kind)
           /\ IF f.kind = "ok"
              THEN /\ currentHalts' = f.halts
                   /\ lastModified' = f.lastModified
                   /\ haltsUpdated' = FlagAtCycleStart(haltsUpdated)
                   /\ i' = 1
                   /\ started' = TRUE
                   /\ repeatFetch' = (started /\ f.halts = currentHalts)
                   /\ reappeared' = Reappearing(prevHalts, currentHalts, f.halts)
                   /\ UNCHANGED exitCode
              ELSE /\ exitCode' = ExitCodeOf(f.kind)
                   /\ UNCHANGED <<currentHalts, lastModified, haltsUpdated, i,
                                  started, repeatFetch, reappeared>>
    /\ fired' = 0
    /\ UNCHANGED <<cmd, prevHalts, tickPending, parseIn, parseOut>>

\* one iteration of: for _, halt := range currentHalts
DiffStep ==
    /\ cmd = "watch" /\ pc = "diff" /\ i <= Len(currentHalts)
    /\ LET d == DiffRecord(prevHalts, haltsUpdated, currentHalts[i])
       IN /\ prevHalts' = d.prevHalts
          /\ haltsUpdated' = d.haltsUpdated
    /\ i' = i + 1
    /\ UNCHANGED <<cmd, pc, exitCode, currentHalts, lastModified, tickPending,
                   bells, table, prevStart, lastResp, started, repeatFetch,
                   parseIn, parseOut, fired, reappeared>>

\* the range loop is over: ring the bell if haltsUpdated
Bell ==
    /\ cmd = "watch" /\ pc = "diff" /\ i > Len(currentHalts)
    /\ bells' = bells + BellCount(haltsUpdated)
    /\ pc' = "display"
    /\ UNCHANGED <<cmd, exitCode, prevHalts, currentHalts, lastModified, i,
                   haltsUpdated, tickPending, table, prevStart, lastResp,
                   started, repeatFetch, parseIn, parseOut, fired, reappeared>>

\* displayFunc(currentHalts, lastModified)
Display ==
    /\ cmd = "watch" /\ pc = "display"
    /\ table' = <<displayHaltsTable(currentHalts)>>
    /\ pc' = "tick"
    /\ UNCHANGED <<cmd, exitCode, prevHalts, currentHalts, lastModified, i,
                   haltsUpdated, tickPending, bells, prevStart, lastResp,
                   started, repeatFetch, parseIn, parseOut, fired, reappeared>>

\* <-ticker.C
WaitTick ==
    /\ cmd = "watch" /\ pc = "tick" /\ tickPending > 0
    /\ tickPending' = tickPending - 1
    /\ pc' = "fetch"
    /\ fired' = 0
    /\ reappeared' = {}
    /\ UNCHANGED <<cmd, exitCode, prevHalts, currentHalts, lastModified, i,
                   haltsUpdated, bells, table, prevStart, lastResp, started,
                   repeatFetch, parseIn, parseOut>>

\* the runtime's timer sends on ticker.C at an interval boundary
TimerFire ==
    /\ cmd = "watch" /\ pc # "exited"
    /\ tickPending' = SendTick(tickPending)
    /\ fired' = IF pc \in {"diff", "display", "tick"} /\ fired < MaxFired
                THEN fired + 1 ELSE fired
    /\ UNCHANGED <<cmd, pc, exitCode, prevHalts, currentHalts, lastModified, i,
                   haltsUpdated, bells, table, prevStart, lastResp, started,
                   repeatFetch, parseIn, parseOut, reappeared>>

Next ==
    \/ FetchRun
    \/ WatchFetch
    \/ DiffStep
    \/ Bell
    \/ Display
    \/ WaitTick
    \/ TimerFire

Spec == Init /\ [][Next]_vars

(***************************************************************************)
(* parseTradeHalts on its own: every body, parsed once                     *)
(***************************************************************************)
ParseInit ==
    /\ cmd = "parse"
    /\ pc = "parse"
    /\ parseIn \in ParseBodies
    /\ InitCommon

ParseCall ==
    /\ cmd = "parse" /\ pc = "parse"
    /\ parseOut' = parseTradeHalts(parseIn)
    /\ pc' = "parsed"
    /\ UNCHANGED <<cmd, exitCode, prevHalts, currentHalts, lastModified, i,
                   haltsUpdated, tickPending, bells, table, prevStart, lastResp,
                   started, repeatFetch, parseIn, fired, reappeared>>

\* displayHaltsTable on what the parser handed back
ParseDisplay ==
    /\ cmd = "parse" /\ pc = "parsed" /\ parseOut.kind = "ok"
    /\ table' = <<displayHaltsTable(parseOut.halts)>>
    /\ pc' = "shown"
    /\ UNCHANGED <<cmd, exitCode, prevHalts, currentHalts, lastModified, i,
                   haltsUpdated, tickPending, bells, prevStart, lastResp,
                   started, repeatFetch, parseIn, parseOut, fired, reappeared>>

ParseNext ==
    \/ ParseCall
    \/ ParseDisplay

ParseSpec == ParseInit /\ [][ParseNext]_vars

(***************************************************************************)
(* Vocabulary of the properties                                            *)
(***************************************************************************)
\* a watch cycle has run its diff to the end and no later fetch has begun
DiffDone ==
    /\ cmd = "watch" /\ started
    /\ \/ pc \in {"display", "tick", "fetch"}
       \/ pc = "diff" /\ i > Len(currentHalts)

\* the bell step of the cycle is behind
BellDone == cmd = "watch" /\ started /\ pc \in {"display", "tick", "fetch"}

Positions(list, s) == {k \in 1..Len(list) : list[k].Symbol = s}

MaxOf(S) == CHOOSE x \in S : \A y \in S : y <= x

LastRecord(list, s) == list[MaxOf(Positions(list, s))]

\* some fetched record is new to, or differs in its resume timestamp from,
\* the halts stored when the cycle began
Caused(before, list) ==
    \E k \in 1..Len(list) :
        \/ list[k].Symbol \notin DOMAIN before
        \/ before[list[k].Symbol].ResumeDateTime # list[k].ResumeDateTime

(***************************************************************************)
(* C1: Diffing is idempotent: a cycle whose fetched list is identical to   *)
(* the list of the cycle before it never sets haltsUpdated, also when the  *)
(* list holds one symbol several times with different resume timestamps.   *)
(***************************************************************************)
C1_SecondPassSilent == (DiffDone /\ repeatFetch) => ~haltsUpdated

(***************************************************************************)
(* C2: A fetched record whose symbol is not a key of the halts stored      *)
(* before the cycle sets haltsUpdated and is stored under its symbol,      *)
(* whatever its other fields are, the first cycle included.                *)
(***************************************************************************)
C2_NewSymbolAlerts ==
    DiffDone =>
        \A k \in 1..Len(currentHalts) :
            LET halt == currentHalts[k]
            IN halt.Symbol \notin DOMAIN prevStart =>
                /\ haltsUpdated
                /\ halt.Symbol \in DOMAIN prevHalts
                /\ prevHalts[halt.Symbol].Symbol = halt.Symbol
                /\ \E j \in Positions(currentHalts, halt.Symbol) :
                        prevHalts[halt.Symbol] = currentHalts[j]
                /\ Positions(currentHalts, halt.Symbol) = {k} =>
                        prevHalts[halt.Symbol] = halt

C2_Witness ==
    /\ DiffDone /\ prevStart = NoHalts /\ lastModified = ModifiedInstant
    /\ Len(currentHalts) = 1
    /\ haltsUpdated
    /\ prevHalts[currentHalts[1].Symbol] = currentHalts[1]

(***************************************************************************)
(* C3: For a symbol stored before the cycle and fetched in it: a record    *)
(* whose resume timestamp differs from the stored one (absent to present   *)
(* and present to absent included) sets haltsUpdated, and replaces the     *)
(* stored record; when every fetched record carries the resume timestamp   *)
(* stored for its symbol, haltsUpdated stays false, whatever the records'  *)
(* names, exchanges, reasons and halt timestamps are.                      *)
(***************************************************************************)
C3_ResumeDecides ==
    DiffDone =>
        /\ \A k \in 1..Len(currentHalts) :
            LET halt == currentHalts[k]
            IN (/\ halt.Symbol \in DOMAIN prevStart
                /\ prevStart[halt.Symbol].ResumeDateTime # halt.ResumeDateTime)
               => /\ haltsUpdated
                  /\ Positions(currentHalts, halt.Symbol) = {k} =>
                        prevHalts[halt.Symbol] = halt
        /\ (\A k \in 1..Len(currentHalts) :
                /\ currentHalts[k].Symbol \in DOMAIN prevStart
                /\ prevStart[currentHalts[k].Symbol].ResumeDateTime
                        = currentHalts[k].ResumeDateTime)
           => ~haltsUpdated

C3_Witness ==
    /\ DiffDone /\ Len(currentHalts) = 2
    /\ {"AAPL", "TSLA"} \subseteq DOMAIN prevStart
    /\ currentHalts[1].Symbol = "AAPL"
    /\ currentHalts[1].ResumeDateTime = prevStart["AAPL"].ResumeDateTime
    /\ currentHalts[1].Reason # prevStart["AAPL"].Reason
    /\ prevHalts["AAPL"] = prevStart["AAPL"]
    /\ currentHalts[2].Symbol = "TSLA"
    /\ prevStart["TSLA"].ResumeDateTime = ZeroTime
    /\ currentHalts[2].ResumeDateTime = ResumeInstant
    /\ prevHalts["TSLA"] = currentHalts[2]
    /\ haltsUpdated

(***************************************************************************)
(* C4: The set of symbols stored in prevHalts never shrinks: no step of    *)
(* the program removes a key, also when the symbol is missing from the     *)
(* fetch or the fetch is empty.                                            *)
(***************************************************************************)
C4_KeysNeverShrink == [][DOMAIN prevHalts \subseteq DOMAIN prevHalts']_vars

C4_Witness ==
    /\ DiffDone /\ currentHalts = <<>>
    /\ DOMAIN prevStart = {"AAPL", "TSLA"}
    /\ DOMAIN prevHalts = {"AAPL", "TSLA"}

SettledFrom(list, s) ==
    LET P == Positions(list, s)
        last == LastRecord(list, s).ResumeDateTime
    IN CHOOSE p \in P :
        /\ \A q \in P : q >= p => list[q].ResumeDateTime = last
        /\ \A r \in P : (\A q \in P : q >= r => list[q].ResumeDateTime = last)
                            => p <= r

C6_BadRowIsError ==
    (pc = "parsed" /\ HasBadRow(parseIn)) =>
        /\ parseOut.kind = "err"
        /\ parseOut.halts = <<>>

(***************************************************************************)
(* C7: A 200 response whose body has a data row with a field count other   *)
(* than 8 ends the process with a non-zero exit code in both commands: no  *)
(* table is printed, and in a watch cycle nothing is diffed, no bell rings *)
(* and no further cycle starts.                                            *)
(***************************************************************************)
C7_MalformedIsFatal ==
    (lastResp.kind = "ok200" /\ lastResp.badRow) =>
        /\ pc = "exited"
        /\ exitCode \in {1, 2}
        /\ table = <<>>
        /\ bells = 0
        /\ prevHalts = prevStart

C7_Witness ==
    /\ cmd = "watch" /\ started /\ prevHalts # NoHalts
    /\ lastResp.kind = "ok200" /\ lastResp.badRow
    /\ pc = "exited" /\ exitCode = 2

(***************************************************************************)
(* C8: A 200 response with a well-formed body whose Last-Modified header   *)
(* is absent or unparsable does not fail the command: the watch loop goes  *)
(* on to diff and render, the fetch command prints its table and exits 0.  *)
(***************************************************************************)
C8_MissingLastModifiedTolerated ==
    (lastResp.kind = "ok200" /\ lastResp.parsed /\ lastResp.lm # "valid") =>
        \/ cmd = "watch" /\ pc # "exited"
        \/ cmd = "fetch" /\ exitCode = 0 /\ table # <<>>

(***************************************************************************)
(* C9: In watch mode a connection error or a non-200 response is terminal: *)
(* the process has exited with a non-zero code without a diff, a bell or a *)
(* table in that cycle, and once exited nothing happens any more.          *)
(***************************************************************************)
C9_FetchFailureTerminal ==
    /\ []((cmd = "watch" /\ lastResp.kind \in {"connErr", "badStatus"}) =>
            /\ pc = "exited"
            /\ exitCode = 1
            /\ bells = 0
            /\ table = <<>>
            /\ prevHalts = prevStart)
    /\ [][pc = "exited" => UNCHANGED vars]_vars

C9_Witness ==
    /\ cmd = "watch" /\ started /\ tickPending = 1 /\ prevHalts # NoHalts
    /\ lastResp.kind = "badStatus"
    /\ pc = "exited" /\ exitCode = 1

(***************************************************************************)
(* C10: In every watch cycle the number of bell characters printed is 1 if *)
(* the cycle's diff set haltsUpdated and 0 otherwise, however many records *)
(* were new or updated; a bell is rung only for a change the cycle's own   *)
(* fetch brought, never for an alert of an earlier cycle.                  *)
(***************************************************************************)
C10_OneBellPerAlertingCycle ==
    /\ (cmd = "watch" /\ pc = "diff") => bells = 0
    /\ BellDone =>
        /\ bells = (IF haltsUpdated THEN 1 ELSE 0)
        /\ bells > 0 => Caused(prevStart, currentHalts)
        /\ Caused(prevStart, currentHalts) => bells = 1

C10_Witness ==
    /\ BellDone /\ bells = 1 /\ Len(currentHalts) = 2
    /\ prevStart # NoHalts
    /\ currentHalts[1].Symbol # currentHalts[2].Symbol
    /\ \A k \in 1..2 :
        /\ currentHalts[k].Symbol \in DOMAIN prevStart
        /\ prevStart[currentHalts[k].Symbol].ResumeDateTime
                # currentHalts[k].ResumeDateTime

(***************************************************************************)
(* C11: Every cycle runs fetch and parse, diff, bell, render in this order *)
(* and is all-or-nothing: the process exits only from the fetch step, and  *)
(* then with prevHalts as it was when the cycle began and with no bell and *)
(* no table of that cycle; once the bell step is done the only step left   *)
(* is the render. The fetch command prints its table and exits 0, or       *)
(* exits non-zero without a table.                                         *)
(***************************************************************************)
StepOrder ==
    {<<"fetch", "diff">>, <<"fetch", "exited">>, <<"diff", "display">>,
     <<"display", "tick">>, <<"tick", "fetch">>}

C11_AllOrNothing ==
    /\ [](/\ (exitCode # -1) <=> (pc = "exited")
          /\ (cmd = "watch" /\ pc = "exited") =>
                /\ bells = 0
                /\ table = <<>>
                /\ prevHalts = prevStart
          /\ (cmd = "fetch" /\ pc = "exited") =>
                \/ exitCode = 0 /\ table # <<>>
                \/ exitCode # 0 /\ table = <<>>
          /\ (cmd = "watch" /\ bells > 0) => pc \in {"display", "tick", "fetch"}
          /\ (cmd = "watch" /\ table # <<>>) => pc \in {"tick", "fetch"})
    /\ [][pc' # pc => <<pc, pc'>> \in StepOrder]_vars

C11_Witness ==
    /\ cmd = "watch" /\ pc = "exited" /\ started
    /\ lastResp.kind = "connErr"
    /\ haltsUpdated /\ bells = 0 /\ table = <<>>
    /\ prevHalts # NoHalts /\ prevHalts = prevStart

(***************************************************************************)
(* C13: When AAPL alone is stored, without a resume time, and the cycle    *)
(* fetches AAPL with a resume time and then TSLA, the cycle rings one      *)
(* bell, its table has exactly the two rows of the fetch and AAPL is       *)
(* stored with the resume time. In every cycle, and in the fetch command,  *)
(* the table has one row per fetched record, in the order of the fetch.    *)
(***************************************************************************)
C13_TableOfFetch ==
    /\ table # <<>> =>
        /\ Len(table[1]) = Len(currentHalts)
        /\ \A k \in 1..Len(currentHalts) :
            /\ table[1][k][1] = currentHalts[k].Symbol
            /\ table[1][k][2] = currentHalts[k].Name
            /\ table[1][k][4] = currentHalts[k].Reason
    /\ (/\ cmd = "watch" /\ pc = "tick"
        /\ DOMAIN prevStart = {"AAPL"}
        /\ prevStart["AAPL"].ResumeDateTime = ZeroTime
        /\ Len(currentHalts) = 2
        /\ currentHalts[1].Symbol = "AAPL"
        /\ currentHalts[1].ResumeDateTime # ZeroTime
        /\ currentHalts[2].Symbol = "TSLA")
       => /\ bells = 1
          /\ Len(table[1]) = 2
          /\ DOMAIN prevHalts = {"AAPL", "TSLA"}
          /\ prevHalts["AAPL"].ResumeDateTime = currentHalts[1].ResumeDateTime
          /\ prevHalts["TSLA"] = currentHalts[2]

C13_Witness ==
    /\ cmd = "watch" /\ pc = "tick"
    /\ DOMAIN prevStart = {"AAPL"}
    /\ prevStart["AAPL"].ResumeDateTime = ZeroTime
    /\ Len(currentHalts) = 2
    /\ currentHalts[1].Symbol = "AAPL"
    /\ currentHalts[1].ResumeDateTime = ResumeInstant
    /\ currentHalts[2].Symbol = "TSLA"
    /\ currentHalts[2].ResumeDateTime = ZeroTime
    /\ bells = 1
    /\ Len(table[1]) = 2

(***************************************************************************)
(* C16: When the loop reaches a fetched record whose symbol is stored with *)
(* an equal resume timestamp, that step changes neither prevHalts - the    *)
(* stored name, exchange, reason and halt timestamp stay those of the      *)
(* earlier record - nor haltsUpdated.                                      *)
(***************************************************************************)
C16_EqualResumeLeavesStored ==
    [][(/\ cmd = "watch" /\ pc = "diff" /\ i <= Len(currentHalts)
        /\ i' = i + 1
        /\ currentHalts[i].Symbol \in DOMAIN prevHalts
        /\ prevHalts[currentHalts[i].Symbol].ResumeDateTime
                = currentHalts[i].ResumeDateTime)
       => (prevHalts' = prevHalts /\ haltsUpdated' = haltsUpdated)]_vars

C16_Witness ==
    /\ DiffDone /\ Len(currentHalts) = 1
    /\ currentHalts[1].Symbol \in DOMAIN prevStart
    /\ LET old == prevStart[currentHalts[1].Symbol]
       IN /\ old.ResumeDateTime = currentHalts[1].ResumeDateTime
          /\ old.Name # currentHalts[1].Name
          /\ old.Exchange # currentHalts[1].Exchange
          /\ old.Reason # currentHalts[1].Reason
          /\ old.HaltDateTime # currentHalts[1].HaltDateTime
          /\ prevHalts[currentHalts[1].Symbol] = old
    /\ ~haltsUpdated

(***************************************************************************)
(* C17: In every watch cycle haltsUpdated is true if and only if prevHalts *)
(* after the diff differs from prevHalts before it.                        *)
(***************************************************************************)
C17_AlertIffChanged == DiffDone => (haltsUpdated <=> prevHalts # prevStart)

(***************************************************************************)
(* C18: After the diff of a cycle, for every symbol that occurs in the     *)
(* fetch, the stored record's resume timestamp is that of the symbol's     *)
(* last record in the fetch.                                               *)
(***************************************************************************)
C18_StoredResumeIsLast ==
    DiffDone =>
        \A k \in 1..Len(currentHalts) :
            LET s == currentHalts[k].Symbol
            IN /\ s \in DOMAIN prevHalts
               /\ (\A j \in (k + 1)..Len(currentHalts) : currentHalts[j].Symbol # s)
                    => prevHalts[s].ResumeDateTime = currentHalts[k].ResumeDateTime

C18_Witness ==
    /\ DiffDone /\ Len(currentHalts) = 2
    /\ currentHalts[1].Symbol = currentHalts[2].Symbol
    /\ currentHalts[1].ResumeDateTime = ZeroTime
    /\ currentHalts[2].ResumeDateTime = ResumeInstant
    /\ currentHalts[1].Symbol \in DOMAIN prevStart
    /\ prevStart[currentHalts[1].Symbol].ResumeDateTime = ResumeInstant
    /\ prevHalts[currentHalts[1].Symbol] = currentHalts[2]

(***************************************************************************)
(* C14: A body with fewer than 2 rows (no row, or the header alone) parses *)
(* to an empty sequence without an error; fetched with status 200 and a    *)
(* valid Last-Modified header, it makes a normal cycle in watch mode: no   *)
(* alert, no bell, prevHalts unchanged, a table without data rows; the     *)
(* fetch command prints the table without data rows and exits 0.           *)
(***************************************************************************)
C14_ShortBodyIsEmpty ==
    (lastResp.kind = "ok200" /\ lastResp.short) =>
        /\ lastResp.parsed
        /\ (lastResp.lm = "valid" /\ cmd = "watch") =>
            /\ pc # "exited"
            /\ currentHalts = <<>>
            /\ ~haltsUpdated
            /\ bells = 0
            /\ prevHalts = prevStart
            /\ table # <<>> => table = << <<>> >>
        /\ (lastResp.lm = "valid" /\ cmd = "fetch") =>
            /\ exitCode = 0
            /\ currentHalts = <<>>
            /\ table = << <<>> >>

C14_Witness ==
    /\ cmd = "watch" /\ started /\ pc = "tick"
    /\ lastResp.kind = "ok200" /\ lastResp.short /\ lastResp.lm = "valid"
    /\ prevHalts # NoHalts /\ prevHalts = prevStart
    /\ currentHalts = <<>> /\ table = << <<>> >> /\ bells = 0

\* the date/time pairs that are in the layout 2006-01-02 15:04:05
Parsable(date, time) == <<date, time>> \in {<<HD, HT>>, <<RD, RT>>}

Unparsed(date, time) == date # "" /\ time # "" /\ ~Parsable(date, time)

(***************************************************************************)
(* C15: For each 8-field data row and each of its timestamps (halt: fields *)
(* 0 and 1, resume: fields 6 and 7): with an empty date or time sub-field  *)
(* the timestamp is absent and nothing is logged; with both non-empty but  *)
(* unparsable it is absent and one warning is logged; the parse succeeds   *)
(* with every row's record included, and an absent timestamp is rendered   *)
(* as an empty cell.                                                       *)
(***************************************************************************)
C15_TimestampsDegrade ==
    (cmd = "parse" /\ pc \in {"parsed", "shown"} /\ Len(parseIn) >= 2
        /\ \A k \in 1..Len(parseIn) : Len(parseIn[k]) = 8)
    => /\ parseOut.kind = "ok"
       /\ Len(parseOut.halts) = Len(parseIn) - 1
       /\ parseOut.logged =
            Cardinality({k \in 2..Len(parseIn) :
                            Unparsed(parseIn[k][1], parseIn[k][2])})
            + Cardinality({k \in 2..Len(parseIn) :
                            Unparsed(parseIn[k][7], parseIn[k][8])})
       /\ \A k \in 2..Len(parseIn) :
            LET rec == parseIn[k]
                halt == parseOut.halts[k - 1]
            IN /\ halt.Symbol = rec[3]
               /\ (halt.HaltDateTime = ZeroTime) <=> ~Parsable(rec[1], rec[2])
               /\ (halt.ResumeDateTime = ZeroTime) <=> ~Parsable(rec[7], rec[8])
               /\ pc = "shown" =>
                    /\ (halt.HaltDateTime = ZeroTime) <=> (table[1][k - 1][5] = "")
                    /\ (halt.ResumeDateTime = ZeroTime) <=> (table[1][k - 1][6] = "")

C15_Witness ==
    /\ cmd = "parse" /\ pc = "shown" /\ Len(parseIn) = 3
    /\ parseOut.logged = 1
    /\ parseIn[2][1] = "" /\ parseIn[2][2] # ""
    /\ Unparsed(parseIn[2][7], parseIn[2][8])
    /\ table[1][1][5] = "" /\ table[1][1][6] = ""
    /\ parseIn[3][7] = "" /\ parseIn[3][8] # ""
    /\ table[1][2][5] # "" /\ table[1][2][6] = ""

(***************************************************************************)
(* C12: Ticks are not queued: however many interval boundaries pass while  *)
(* a cycle runs, ticker.C holds at most one tick; the loop starts its next *)
(* cycle only by taking a held tick, and taking it leaves none behind, so  *)
(* a slow cycle is followed by one immediate cycle and the cycle after     *)
(* that waits for a fresh tick.                                            *)
(***************************************************************************)
C12_TicksNotQueued ==
    /\ [](tickPending \in {0, 1})
    /\ [][(pc = "tick" /\ pc' # pc) =>
            (pc' = "fetch" /\ tickPending = 1 /\ tickPending' = 0)]_vars
    /\ [][(pc # "tick" /\ pc' # pc) => tickPending' = tickPending]_vars

C12_Witness ==
    /\ cmd = "watch" /\ pc = "tick" /\ started
    /\ fired >= 2
    /\ tickPending = 1

(***************************************************************************)
(* C19: A stored symbol that was missing from the fetch before and is      *)
(* fetched again is compared with the record still stored for it: when all *)
(* its records carry the stored resume timestamp they do not set           *)
(* haltsUpdated and the stored record stays; when one of them carries      *)
(* another resume timestamp haltsUpdated is set.                           *)
(***************************************************************************)
C19_ReappearanceComparesStored ==
    (cmd = "watch" /\ pc \in {"display", "tick"}) =>
        /\ \A s \in reappeared :
            /\ s \in DOMAIN prevStart
            /\ (\A k \in Positions(currentHalts, s) :
                    currentHalts[k].ResumeDateTime = prevStart[s].ResumeDateTime)
               => prevHalts[s] = prevStart[s]
            /\ (\E k \in Positions(currentHalts, s) :
                    currentHalts[k].ResumeDateTime # prevStart[s].ResumeDateTime)
               => haltsUpdated
        /\ (/\ reappeared # {}
            /\ \A k \in 1..Len(currentHalts) :
                /\ currentHalts[k].Symbol \in reappeared
                /\ currentHalts[k].Symbol \in DOMAIN prevStart
                /\ currentHalts[k].ResumeDateTime
                    = prevStart[currentHalts[k].Symbol].ResumeDateTime)
           => (~haltsUpdated /\ bells = 0)

C19_Witness ==
    /\ cmd = "watch" /\ pc = "tick"
    /\ reappeared = {"AAPL"}
    /\ DOMAIN prevStart = {"AAPL", "TSLA"}
    /\ Len(currentHalts) = 1
    /\ currentHalts[1].Symbol = "AAPL"
    /\ currentHalts[1].ResumeDateTime = ZeroTime
    /\ prevStart["AAPL"].ResumeDateTime = ZeroTime
    /\ ~haltsUpdated /\ bells = 0

====
